---- MODULE Spec2Model ----
(***************************************************************************)
(* Model of the DeFi Dash SDK facade (src/src/sdk.ts), the deleverage      *)
(* strategy builder (src/src/strategies/deleverage.ts) and the parts of    *)
(* the Suilend and Navi adapters the builder calls.                        *)
(*                                                                         *)
(* The chain, the money markets, the swap router and the flash-loan        *)
(* provider are the environment: their answers are chosen in Init and      *)
(* stay fixed during a behaviour, and the answer of the transport to a     *)
(* simulation or a submission is chosen at every call.                     *)
(*                                                                         *)
(* Amounts are integers as in the source (bigint).  The fixed-point scale  *)
(* WAD is 10^18 in the source; the model uses a smaller power of ten so    *)
(* that products stay inside 32-bit integers.                              *)
(***************************************************************************)
EXTENDS Integers, Sequences, FiniteSets, TLC

\* ------------------------------------------------------------------ bounds
MaxDeposit == 1000
MaxDebtUnits == 200
MaxFee == 5
MaxQuoteOut == 30000

\* --------------------------------------------------------------- constants
\* src/src/protocols/suilend.ts:513 (10n ** 18n), scaled to 10^2
WAD == 100
\* src/unnamed/part_002:351 and the token decimals of USDC (src/src/protocols/suilend.ts:595)
NAVI_BALANCE_DECIMALS == 9
USDC_DECIMALS == 6

Protocols == {"suilend", "navi"}
Keys == {"keyA"}
Addresses == {"addrB"}
NoKey == "noKey"
NoAddress == "noAddress"

\* keypair.getPublicKey().toSuiAddress()
ToSuiAddress(k) == "addrA"

RECURSIVE Pow10(_)
Pow10(n) == IF n = 0 THEN 1 ELSE 10 * Pow10(n - 1)

VARIABLES
    \* ---- DefiDashSDK fields
    initialized, keypair, userAddress, protocols,
    lastInit,     \* what the last completed initialize was given (history)
    \* ---- environment (fixed per behaviour)
    account,      \* the caller's on-chain lending state
    router,       \* the swap router's answers
    flashFee,     \* the flash-loan provider's fee for the loan
    naviData,     \* what the Navi adapter fetched (pools, price feeds)
    \* ---- the last operation
    op,           \* its name and parameters
    tx,           \* the plan it worked on
    calls,        \* the external calls it made, in order
    ret,          \* how its promise settled
    built,        \* what the deleverage builder computed
    \* ---- metrics
    market,       \* the queried asset's reserve on chain, now
    obligation,   \* the caller's obligation object on chain
    reserves,     \* SuilendAdapter.client.lendingMarket.reserves (the queried asset's)
    result,       \* what the last metrics operation returned
    \* ---- fan-out reads and utilities
    fanout,       \* the aggregated read in flight, and what the last one returned
    calc          \* the last application of a utility function

vars == <<initialized, keypair, userAddress, protocols, lastInit,
          account, router, flashFee, naviData,
          op, tx, calls, ret, built,
          market, obligation, reserves, result, fanout, calc>>

facade == <<initialized, keypair, userAddress, protocols>>
env == <<account, router, flashFee, naviData, market, obligation>>
aside == <<fanout, calc>>

\* ------------------------------------------------------------- environment
Accounts ==
    { [caps |-> c, deposit |-> 0, borrowRaw |-> 0,
       originRate |-> WAD, currentRate |-> WAD] : c \in BOOLEAN }
    \cup
    { [caps |-> TRUE, deposit |-> MaxDeposit, borrowRaw |-> 0,
       originRate |-> WAD, currentRate |-> WAD] }
    \cup
    { [caps |-> TRUE, deposit |-> MaxDeposit, borrowRaw |-> b,
       originRate |-> WAD, currentRate |-> c] :
         b \in {WAD + (WAD \div 2), MaxDebtUnits * WAD},
         c \in {WAD, WAD + (WAD \div 10)} }

Routers ==
    { [full |-> f, partial |-> p, lev |-> l] :
        f \in {<<>>, <<0>>, <<100>>, <<100, MaxQuoteOut>>},
        p \in {<<>>, <<MaxQuoteOut \div 100>>},
        l \in {<<>>, <<MaxDeposit>>} }

NaviDatas == [pools : BOOLEAN, feeds : BOOLEAN]

\* ------------------------------------------------------- metrics: the chain
MaxUsd == 6
MaxTokens == 2
MaxPrice == 7

\* toFixed(6) of the source, scaled to one digit
TO_FIXED_DIGITS == 1
\* localReserve?.decimals || 9, scaled to two digits
DECIMALS == 2
\* the buffer 0.95 of getMaxWithdrawableAmount, in percent
SAFETY_PCT == 95

\* the reserve of the queried asset: price and cToken exchange rate are WAD
\* fixed-point numbers, the loan-to-value ratios are percentages
Markets ==
    { [price |-> p, cTokenExchangeRate |-> r,
       openLtvPct |-> l[1], closeLtvPct |-> l[2]] :
         p \in {0, 3 * WAD, MaxPrice * WAD},
         r \in {WAD, WAD + (WAD \div 10)},
         l \in {<<0, 0>>, <<50, 80>>} }

DefaultMarket ==
    [price |-> 3 * WAD, cTokenExchangeRate |-> WAD,
     openLtvPct |-> 50, closeLtvPct |-> 80]

\* the adapter holds no client before initialize
NoReserves ==
    [price |-> 0, cTokenExchangeRate |-> 0, openLtvPct |-> 0, closeLtvPct |-> 0]

\* a deposit of another asset, as parseObligation hands it over: the amount in
\* units of 10^-DECIMALS / WAD tokens, the value in WAD-scaled USD
OtherDeposit ==
    [coinType |-> "SUI", depositedAmount |-> 10 * Pow10(DECIMALS) * WAD,
     depositedAmountUsd |-> 10 * WAD, closeLtvPct |-> 80]

EmptyObligation ==
    [depositedCtokenAmount |-> 0, borrows |-> 0,
     allowedBorrowValueUsd |-> 0, borrowedValueUsd |-> 0,
     weightedBorrowsUsd |-> 0, unhealthyBorrowValueUsd |-> 0, others |-> <<>>]

\* the obligation object: USD values are WAD fixed-point numbers as stored at
\* the obligation's last refresh on chain
Obligations ==
    { [depositedCtokenAmount |-> c, borrows |-> IF b = 0 THEN 0 ELSE 1,
       allowedBorrowValueUsd |-> a, borrowedValueUsd |-> b,
       weightedBorrowsUsd |-> b,
       unhealthyBorrowValueUsd |-> IF a = 0 THEN 0 ELSE a + 2 * WAD,
       others |-> o] :
         c \in {0, Pow10(DECIMALS) + 6, MaxTokens * Pow10(DECIMALS)},
         a \in {0, MaxUsd * WAD},
         b \in {0, WAD, MaxUsd * WAD - 10, (MaxUsd + 1) * WAD},
         o \in {<<>>, <<OtherDeposit>>} }

\* what an obligation and a reserve can be together: something is deposited,
\* and borrowing power comes from collateral with a non-zero open LTV
Consistent(o, m) ==
    /\ o.depositedCtokenAmount > 0 \/ o.others # <<>>
    /\ IF o.others = <<>> /\ (o.depositedCtokenAmount = 0 \/ m.openLtvPct = 0)
       THEN o.allowedBorrowValueUsd = 0 /\ o.borrows = 0
       ELSE o.allowedBorrowValueUsd > 0

\* the obligation of an account of the strategy model
ObligationOf(a) ==
    IF ~a.caps \/ a.deposit = 0 THEN EmptyObligation
    ELSE [depositedCtokenAmount |-> MaxTokens * Pow10(DECIMALS),
          borrows |-> IF a.borrowRaw > 0 THEN 1 ELSE 0,
          allowedBorrowValueUsd |-> MaxUsd * WAD,
          borrowedValueUsd |-> IF a.borrowRaw > 0 THEN WAD ELSE 0,
          weightedBorrowsUsd |-> IF a.borrowRaw > 0 THEN WAD ELSE 0,
          unhealthyBorrowValueUsd |-> (MaxUsd + 2) * WAD, others |-> <<>>]

\* the account of the strategy model that belongs to an obligation
AccountOf(o) ==
    [caps |-> TRUE,
     deposit |-> IF o.depositedCtokenAmount > 0 THEN MaxDeposit ELSE 0,
     borrowRaw |-> IF o.borrows > 0 THEN MaxDebtUnits * WAD ELSE 0,
     originRate |-> WAD, currentRate |-> WAD]

NoAccount ==
    [caps |-> FALSE, deposit |-> 0, borrowRaw |-> 0,
     originRate |-> WAD, currentRate |-> WAD]

\* ------------------------------------------------------------ plan steps
Step(kind, amount, uses, consumes) ==
    [kind |-> kind, amount |-> amount, uses |-> uses, consumes |-> consumes]

NoPosition == [exists |-> FALSE, collateral |-> 0, debt |-> 0]

NoBuilt == [status |-> "notRun", raised |-> "none", reached |-> FALSE,
            quoted |-> FALSE, position |-> NoPosition,
            flashLoanUsdc |-> 0, flashLoanFee |-> 0, totalRepayment |-> 0,
            fullSwapIn |-> 0, fullSwapOut |-> 0,
            swapAmount |-> 0, keepCollateral |-> 0, estimatedUsdcProfit |-> 0]

NoRet == [kind |-> "none", success |-> FALSE, error |-> "", txDigest |-> FALSE,
          signer |-> NoKey]
NoOp == [name |-> "none", protocol |-> "none", dryRun |-> FALSE]
NoCalc == [fn |-> "none", done |-> FALSE]
NoFanout ==
    [status |-> "idle", name |-> "none", pending |-> {}, fails |-> {},
     order |-> <<>>, adapters |-> {}, address |-> NoAddress,
     portfolios |-> <<>>, markets |-> <<>>]

\* the caller of a new operation no longer holds what the last aggregated
\* read returned; a read in flight goes on
Forgets == fanout' = IF fanout.status = "pending" THEN fanout ELSE NoFanout

Resolved(success, error, digest, signer) ==
    [kind |-> "resolved", success |-> success, error |-> error,
     txDigest |-> digest, signer |-> signer]
Rejected(error) ==
    [kind |-> "rejected", success |-> FALSE, error |-> error,
     txDigest |-> FALSE, signer |-> NoKey]

\* ---------------------------------------------------------------- adapters
ConsumesRepaymentCoin(p) == p = "navi"

\* SuilendAdapter.getPosition
SuilendGetPosition(a) ==
    IF ~a.caps THEN NoPosition
    ELSE IF a.deposit = 0 /\ a.borrowRaw = 0 THEN NoPosition
    ELSE IF a.deposit = 0 THEN NoPosition
    ELSE [exists |-> TRUE, collateral |-> a.deposit,
          debt |-> IF a.borrowRaw > 0 THEN a.borrowRaw \div WAD ELSE 0]

\* NaviAdapter.getPosition
NaviGetPosition(a) ==
    IF ~a.caps THEN NoPosition
    ELSE IF ~(a.deposit > 0 \/ a.borrowRaw > 0) THEN NoPosition
    ELSE IF ~(a.deposit > 0) THEN NoPosition
    ELSE [exists |-> TRUE, collateral |-> a.deposit,
          debt |-> IF a.borrowRaw > 0
                   THEN a.borrowRaw \div Pow10(NAVI_BALANCE_DECIMALS - USDC_DECIMALS)
                   ELSE 0]

GetPosition(p, a) ==
    IF p = "suilend" THEN SuilendGetPosition(a) ELSE NaviGetPosition(a)

\* calculateCompoundedBorrow: raw * (current / init), raw when init = 0.
\* The quotient is kept to DECIMAL_PLACES digits, rounded half up, as
\* BigNumber.div does; the result is the pair <<numerator, denominator>>.
DECIMAL_PLACES == 4
\* the two rates are swapped
CalculateCompoundedBorrow_Inverted(raw, init, current) ==
    IF init = 0 THEN <<raw, 1>>
    ELSE LET scale == Pow10(DECIMAL_PLACES)
             factor == (2 * init * scale + current) \div (2 * current)
         IN <<raw * factor, scale>>

CalculateCompoundedBorrow(raw, init, current) ==
    IF init = 0 THEN <<raw, 1>>
    ELSE LET scale == Pow10(DECIMAL_PLACES)
             factor == (2 * current * scale + init) \div (2 * init)
         IN <<raw * factor, scale>>

\* SuilendAdapter.refreshOracles / NaviAdapter.refreshOracles: the steps appended
RefreshOracles(p, nd) ==
    IF p = "suilend" THEN <<Step("refreshOracles", 0, {}, {})>>
    ELSE IF nd.feeds THEN <<Step("refreshOracles", 0, {}, {})>>
    ELSE <<>>

\* SuilendAdapter.repay / NaviAdapter.repay: the error raised, or "none"
RepayError(p, a, nd) ==
    IF p = "suilend" THEN (IF ~a.caps THEN "NoObligation" ELSE "none")
    ELSE (IF ~nd.pools THEN "PoolNotFound" ELSE "none")

RepayStep(p, coin) ==
    Step("repay", 0, {coin}, IF ConsumesRepaymentCoin(p) THEN {coin} ELSE {})

\* SuilendAdapter.withdraw / NaviAdapter.withdraw
WithdrawError(p, a, nd) ==
    IF p = "suilend" THEN (IF ~a.caps THEN "NoObligation" ELSE "none")
    ELSE (IF ~nd.pools THEN "PoolNotFound" ELSE "none")

\* ------------------------------------------------------------ swap router
\* MetaAg.quote: one quote per route, each echoing the requested input
Quote(amountIn, outs) ==
    [k \in 1..Len(outs) |-> [amountIn |-> amountIn, amountOut |-> outs[k]]]

\* quotes.sort((a, b) => Number(b.amountOut) - Number(a.amountOut))[0]
BestQuote(quotes) ==
    LET i == CHOOSE i \in 1..Len(quotes) :
                /\ \A j \in 1..Len(quotes) : quotes[j].amountOut <= quotes[i].amountOut
                /\ \A j \in 1..(i - 1) : quotes[j].amountOut < quotes[i].amountOut
    IN quotes[i]

\* ScallopFlashLoanClient.calculateFee
CalculateFee(amount, fee) == fee

\* ------------------------------------------------------ deleverage strategy
\* calculateDeleverageEstimate: raised names the error thrown, or "none"
CalculateDeleverageEstimate(position, fee, outs) ==
    LET borrowAmount == position.debt
        supplyAmount == position.collateral
        flashLoanUsdc == (borrowAmount * 1005) \div 1000
        flashLoanFee == CalculateFee(flashLoanUsdc, fee)
        totalRepayment == flashLoanUsdc + flashLoanFee
        withdrawAmount == supplyAmount
        fullSwapQuotes == Quote(withdrawAmount, outs)
        fullQuote == BestQuote(fullSwapQuotes)
        fullSwapOut == fullQuote.amountOut
        fullSwapIn == fullQuote.amountIn
        targetUsdcOut == (totalRepayment * 102) \div 100
        requiredSwapIn == (targetUsdcOut * fullSwapIn) \div fullSwapOut
        actualSwapIn == IF requiredSwapIn > withdrawAmount
                        THEN withdrawAmount ELSE requiredSwapIn
        keepCollateral == withdrawAmount - actualSwapIn
        estimatedUsdcProfit ==
            IF fullSwapOut > totalRepayment
            THEN (actualSwapIn * fullSwapOut) \div fullSwapIn - totalRepayment
            ELSE 0
        partial == [NoBuilt EXCEPT !.reached = TRUE, !.position = position,
                       !.flashLoanUsdc = flashLoanUsdc,
                       !.flashLoanFee = flashLoanFee,
                       !.totalRepayment = totalRepayment]
    IN  IF Len(fullSwapQuotes) = 0
        THEN [raised |-> "NoRoute", calls |-> <<"quote">>, est |-> partial]
        ELSE IF fullSwapOut = 0
        THEN [raised |-> "RangeError", calls |-> <<"quote">>,
              est |-> [partial EXCEPT !.quoted = TRUE,
                                      !.fullSwapIn = fullSwapIn,
                                      !.fullSwapOut = fullSwapOut]]
        ELSE [raised |-> "none", calls |-> <<"quote", "getTokenPrice">>,
              est |-> [partial EXCEPT !.quoted = TRUE,
                                      !.fullSwapIn = fullSwapIn,
                                      !.fullSwapOut = fullSwapOut,
                                      !.swapAmount = actualSwapIn,
                                      !.keepCollateral = keepCollateral,
                                      !.estimatedUsdcProfit = estimatedUsdcProfit]]

\* steps 5 to 7 of buildDeleverageTransaction, appended once the second quote exists
SwapRepayTransfer(e) ==
    << Step("splitCoins", e.swapAmount, {"withdrawnCoin"}, {}),
       Step("swap", e.swapAmount, {"coinToSwap"}, {"coinToSwap"}),
       Step("splitCoins", e.totalRepayment, {"swappedUsdc"}, {}),
       Step("repayFlashLoan", e.totalRepayment, {"flashRepayment", "receipt"},
            {"flashRepayment", "receipt"}),
       Step("transferObjects", 0, {"withdrawnCoin", "swappedUsdc", "loanCoin"},
            {"withdrawnCoin", "swappedUsdc", "loanCoin"}) >>

\* buildDeleverageTransaction(tx, params) of the strategy module
BuildDeleverageTx(tx0, p, position, a, rt, fee, nd) ==
    LET r == CalculateDeleverageEstimate(position, fee, rt.full)
        e == r.est
        tx1 == Append(tx0, Step("borrowFlashLoan", e.flashLoanUsdc, {}, {}))
        tx2 == tx1 \o RefreshOracles(p, nd)
        tx3 == Append(tx2, RepayStep(p, "loanCoin"))
        tx4 == Append(tx3, Step("withdraw", position.collateral, {}, {}))
        swapQuotes == Quote(e.swapAmount, rt.partial)
        tx5 == tx4 \o SwapRepayTransfer(e)
    IN  IF r.raised # "none"
        THEN [raised |-> r.raised, tx |-> tx0, calls |-> r.calls, est |-> e]
        ELSE IF RepayError(p, a, nd) # "none"
        THEN [raised |-> RepayError(p, a, nd), tx |-> tx2, calls |-> r.calls, est |-> e]
        ELSE IF WithdrawError(p, a, nd) # "none"
        THEN [raised |-> WithdrawError(p, a, nd), tx |-> tx3, calls |-> r.calls, est |-> e]
        ELSE IF Len(swapQuotes) = 0
        THEN [raised |-> "NoRoute", tx |-> tx4,
              calls |-> r.calls \o <<"quote">>, est |-> e]
        ELSE [raised |-> "none", tx |-> tx5,
              calls |-> r.calls \o <<"quote">>, est |-> e]

\* the zero-debt test is left out: a debt-free position goes on to the builder
SdkBuildDeleverage_NoDebtCheck(tx0, p) ==
    LET position == GetPosition(p, account)
        b == BuildDeleverageTx(tx0, p, position, account, router, flashFee, naviData)
        none == [raised |-> "none", tx |-> tx0, calls |-> <<>>, est |-> NoBuilt]
    IN  IF ~initialized THEN [none EXCEPT !.raised = "NotInitialized"]
        ELSE IF p \notin protocols THEN [none EXCEPT !.raised = "NotSupported"]
        ELSE IF ~position.exists
        THEN [none EXCEPT !.raised = "NoPosition", !.calls = <<"getPosition">>]
        ELSE [b EXCEPT !.calls = <<"getPosition">> \o b.calls]

\* DefiDashSDK.buildDeleverageTransaction(tx, params)
SdkBuildDeleverage(tx0, p) ==
    LET position == GetPosition(p, account)
        b == BuildDeleverageTx(tx0, p, position, account, router, flashFee, naviData)
        none == [raised |-> "none", tx |-> tx0, calls |-> <<>>, est |-> NoBuilt]
    IN  IF ~initialized THEN [none EXCEPT !.raised = "NotInitialized"]
        ELSE IF p \notin protocols THEN [none EXCEPT !.raised = "NotSupported"]
        ELSE IF ~position.exists
        THEN [none EXCEPT !.raised = "NoPosition", !.calls = <<"getPosition">>]
        ELSE IF position.debt = 0
        THEN [none EXCEPT !.raised = "NoDebt", !.calls = <<"getPosition">>,
                          !.est = [NoBuilt EXCEPT !.position = position]]
        ELSE [b EXCEPT !.calls = <<"getPosition">> \o b.calls]

\* -------------------------------------------------------- leverage strategy
\* SuilendAdapter.deposit / NaviAdapter.deposit: the error raised, or "none"
DepositError(p, a, nd) ==
    IF p = "suilend" THEN "none"
    ELSE (IF ~nd.pools THEN "PoolNotFound" ELSE "none")

\* the steps deposit appends
DepositSteps(p, a) ==
    IF p = "suilend" /\ ~a.caps
    THEN << Step("createObligation", 0, {}, {}),
            Step("deposit", 0, {"depositCoin"}, {"depositCoin"}),
            Step("transferObjects", 0, {"obligationOwnerCap"}, {"obligationOwnerCap"}) >>
    ELSE << Step("deposit", 0, {"depositCoin"}, {"depositCoin"}) >>

\* SuilendAdapter.borrow / NaviAdapter.borrow: the error raised, or "none"
BorrowError(p, a, nd) ==
    IF p = "suilend" THEN (IF ~a.caps THEN "NoObligation" ELSE "none")
    ELSE (IF ~nd.pools THEN "PoolNotFound" ELSE "none")

\* DefiDashSDK.resolveCoinType: the symbols COIN_TYPES knows
KnownAssets == {"LBTC"}

\* buildLeverageTransaction of strategies/leverage
BuildLeverageTx(tx0, p, depositAmount, multiplierPct, a, rt, fee, nd) ==
    LET additional == (depositAmount * (multiplierPct - 100)) \div 100
        quotes == [k \in 1..Len(rt.lev) |->
                      [amountIn |-> rt.lev[k], amountOut |-> additional]]
        best == BestQuote(quotes)
        flashLoanUsdc == (best.amountIn * 102) \div 100
        flashLoanFee == CalculateFee(flashLoanUsdc, fee)
        borrowAmount == flashLoanUsdc + flashLoanFee
        tx1 == tx0 \o << Step("borrowFlashLoan", flashLoanUsdc, {}, {}),
                         Step("swap", best.amountIn, {"loanCoin"}, {"loanCoin"}),
                         Step("mergeCoins", depositAmount, {"swappedAsset", "userCoin"},
                              {"swappedAsset", "userCoin"}) >>
        tx2 == tx1 \o RefreshOracles(p, nd)
        tx3 == tx2 \o DepositSteps(p, a)
        tx4 == tx3 \o << Step("borrow", borrowAmount, {}, {}),
                         Step("repayFlashLoan", borrowAmount, {"borrowedCoin", "receipt"},
                              {"borrowedCoin", "receipt"}),
                         Step("transferObjects", 0, {"surplus"}, {"surplus"}) >>
    IN  IF Len(quotes) = 0
        THEN [raised |-> "NoRoute", tx |-> tx0, calls |-> <<"quote">>, est |-> NoBuilt]
        ELSE IF DepositError(p, a, nd) # "none"
        THEN [raised |-> DepositError(p, a, nd), tx |-> tx2,
              calls |-> <<"quote">>, est |-> NoBuilt]
        ELSE IF BorrowError(p, a, nd) # "none"
        THEN [raised |-> BorrowError(p, a, nd), tx |-> tx3,
              calls |-> <<"quote">>, est |-> NoBuilt]
        ELSE [raised |-> "none", tx |-> tx4, calls |-> <<"quote">>, est |-> NoBuilt]

\* DefiDashSDK.buildLeverageTransaction(tx, params)
SdkBuildLeverage(tx0, p, asset, depositAmount, multiplierPct) ==
    LET b == BuildLeverageTx(tx0, p, depositAmount, multiplierPct,
                             account, router, flashFee, naviData)
        none == [raised |-> "none", tx |-> tx0, calls |-> <<>>, est |-> NoBuilt]
    IN  IF ~initialized THEN [none EXCEPT !.raised = "NotInitialized"]
        ELSE IF p \notin protocols THEN [none EXCEPT !.raised = "NotSupported"]
        ELSE IF asset \notin KnownAssets THEN [none EXCEPT !.raised = "UnknownAsset"]
        ELSE b

\* ------------------------------------------------------------------ facade
\* what the builder left behind, as recorded for the operation
BuiltOf(b) ==
    [b.est EXCEPT !.status = IF b.raised = "none" THEN "returned" ELSE "raised",
                  !.raised = b.raised]

ChainAnswers == {"success", "failure", "serializeThrows", "rpcThrows"}

\* DefiDashSDK.dryRun(tx)
DryRun(chain) ==
    CASE chain = "serializeThrows" ->
            [ret |-> Rejected("SerializeError"), calls |-> <<"build">>]
      [] chain = "rpcThrows" ->
            [ret |-> Rejected("RpcError"),
             calls |-> <<"build", "dryRunTransactionBlock">>]
      [] chain = "success" ->
            [ret |-> Resolved(TRUE, "", FALSE, NoKey),
             calls |-> <<"build", "dryRunTransactionBlock">>]
      [] OTHER ->
            [ret |-> Resolved(FALSE, "DryRunFailed", FALSE, NoKey),
             calls |-> <<"build", "dryRunTransactionBlock">>]

\* DefiDashSDK.execute(tx)
Execute(chain, signer) ==
    IF signer = NoKey
    THEN [ret |-> Rejected("KeypairRequired"), calls |-> <<>>]
    ELSE CASE chain \in {"serializeThrows", "rpcThrows"} ->
                [ret |-> Rejected("RpcError"),
                 calls |-> <<"signAndExecuteTransaction">>]
           [] chain = "success" ->
                [ret |-> Resolved(TRUE, "", TRUE, signer),
                 calls |-> <<"signAndExecuteTransaction">>]
           [] OTHER ->
                [ret |-> Resolved(FALSE, "ExecutionFailed", TRUE, signer),
                 calls |-> <<"signAndExecuteTransaction">>]

\* the build's error is not noticed (the build call is not awaited)
TryBlock_BuildNotAwaited(b, dry, chain, signer) ==
    LET r == IF dry THEN DryRun(chain) ELSE Execute(chain, signer)
    IN [ret |-> r.ret, calls |-> b.calls \o r.calls]

\* the dryRun flag is not looked at
TryBlock_DryRunIgnored(b, dry, chain, signer) ==
    IF b.raised # "none"
    THEN [ret |-> Resolved(FALSE, b.raised, FALSE, NoKey), calls |-> b.calls]
    ELSE LET r == Execute(chain, signer)
         IN [ret |-> r.ret, calls |-> b.calls \o r.calls]

\* the try block of DefiDashSDK.leverage / DefiDashSDK.deleverage: the build is
\* awaited inside the try, the promise of dryRun / execute is returned unawaited
TryBlock(b, dry, chain, signer) ==
    IF b.raised # "none"
    THEN [ret |-> Resolved(FALSE, b.raised, FALSE, NoKey), calls |-> b.calls]
    ELSE LET r == IF dry THEN DryRun(chain) ELSE Execute(chain, signer)
         IN [ret |-> r.ret, calls |-> b.calls \o r.calls]

\* the guards of DefiDashSDK.leverage / DefiDashSDK.deleverage before the try
\* block: "run" when the try block is entered
StrategyGuard ==
    IF ~initialized THEN "NotInitialized"
    ELSE IF keypair = NoKey THEN "KeypairRequired"
    ELSE "run"

Strategy(name, p, dry, chain, b) ==
    LET g == StrategyGuard
        t == TryBlock(b, dry, chain, keypair)
    IN  /\ op' = [name |-> name, protocol |-> p, dryRun |-> dry]
        /\ tx' = IF g = "run" THEN b.tx ELSE <<>>
        /\ calls' = IF g = "run" THEN t.calls ELSE <<>>
        /\ ret' = CASE g = "NotInitialized" -> Rejected("NotInitialized")
                    [] g = "KeypairRequired" ->
                           Resolved(FALSE, "KeypairRequired", FALSE, NoKey)
                    [] OTHER -> t.ret
        /\ built' = IF g = "run" THEN BuiltOf(b) ELSE NoBuilt
        /\ Forgets /\ UNCHANGED <<facade, lastInit, env, reserves, result, calc>>

DepositAmount == MaxDeposit \div 10
MultiplierPct == 200

\* DefiDashSDK.leverage(params)
Leverage(p, asset, dry, chain) ==
    Strategy("leverage", p, dry, chain,
             SdkBuildLeverage(<<>>, p, asset, DepositAmount, MultiplierPct))

\* DefiDashSDK.deleverage(params)
Deleverage(p, dry, chain) ==
    Strategy("deleverage", p, dry, chain, SdkBuildDeleverage(<<>>, p))

\* a caller of DefiDashSDK.buildLeverageTransaction / buildDeleverageTransaction
\* with a fresh Transaction
Build(name, p, b) ==
    /\ op' = [name |-> name, protocol |-> p, dryRun |-> FALSE]
    /\ tx' = b.tx
    /\ calls' = b.calls
    /\ ret' = IF b.raised = "none" THEN Resolved(TRUE, "", FALSE, NoKey)
              ELSE Rejected(b.raised)
    /\ built' = BuiltOf(b)
    /\ Forgets /\ UNCHANGED <<facade, lastInit, env, reserves, result, calc>>

BuildLeverageTransaction(p, asset) ==
    Build("buildLeverageTransaction", p,
          SdkBuildLeverage(<<>>, p, asset, DepositAmount, MultiplierPct))

BuildDeleverageTransaction(p) ==
    Build("buildDeleverageTransaction", p, SdkBuildDeleverage(<<>>, p))

\* DefiDashSDK.getPosition(protocol)
GetPositionOp(p) ==
    LET position == GetPosition(p, account)
        err == IF ~initialized THEN "NotInitialized"
               ELSE IF p \notin protocols THEN "NotSupported" ELSE "none"
    IN  /\ op' = [name |-> "getPosition", protocol |-> p, dryRun |-> FALSE]
        /\ tx' = <<>>
        /\ calls' = IF err = "none" THEN <<"getPosition">> ELSE <<>>
        /\ ret' = IF err = "none" THEN Resolved(TRUE, "", FALSE, NoKey)
                  ELSE Rejected(err)
        /\ built' = IF err = "none" THEN [NoBuilt EXCEPT !.position = position]
                    ELSE NoBuilt
        /\ Forgets /\ UNCHANGED <<facade, lastInit, env, reserves, result, calc>>

\* ------------------------------------------------------------------ metrics
Max(a, b) == IF a >= b THEN a ELSE b

\* Number.prototype.toFixed of the quotient num / den (den > 0): the nearest
\* multiple of 10^-TO_FIXED_DIGITS, a tie going up; the decimal string is kept
\* as that count of units, which stripping its trailing zeros leaves unchanged
ToFixed(num, den) == (2 * num * Pow10(TO_FIXED_DIGITS) + den) \div (2 * den)

\* the members of the two adapter classes
SuilendMethods ==
    {"initialize", "getPosition", "hasPosition", "deposit", "withdraw", "borrow",
     "repay", "refreshOracles", "getMarkets", "getAccountPortfolio",
     "getReserveInfo", "getObligationCap", "getSuilendClient",
     "getMaxBorrowableAmount", "getMaxWithdrawableAmount"}
NaviMethods ==
    {"initialize", "getPosition", "hasPosition", "deposit", "withdraw", "borrow",
     "repay", "refreshOracles", "getReserveInfo", "getMarkets",
     "getAccountPortfolio", "getPools"}
AdapterMethods(p) == IF p = "suilend" THEN SuilendMethods ELSE NaviMethods

\* the subtraction is not clamped at zero
SuilendGetMaxBorrowableAmount_NoClamp(a, o, rs) ==
    LET availableBorrowValue == o.allowedBorrowValueUsd - o.borrowedValueUsd
    IN  IF ~a.caps THEN 0
        ELSE IF rs.price = 0 THEN 0
        ELSE ToFixed(availableBorrowValue, rs.price)

\* SuilendAdapter.getMaxBorrowableAmount: the string returned, in units of
\* 10^-TO_FIXED_DIGITS tokens
SuilendGetMaxBorrowableAmount(a, o, rs) ==
    LET availableBorrowValue ==
            Max(0, o.allowedBorrowValueUsd - o.borrowedValueUsd)
    IN  IF ~a.caps THEN 0
        ELSE IF rs.price = 0 THEN 0
        ELSE ToFixed(availableBorrowValue, rs.price)

\* SuilendAdapter.getMaxWithdrawableAmount: the string returned, in units of
\* 10^-TO_FIXED_DIGITS tokens
SuilendGetMaxWithdrawableAmount(a, o, rs) ==
    LET depositedNum == o.depositedCtokenAmount * rs.cTokenExchangeRate
        depositedDen == Pow10(DECIMALS) * WAD
        excessValue == o.allowedBorrowValueUsd - o.borrowedValueUsd
        maxNum == SAFETY_PCT * excessValue
        maxDen == rs.price * rs.openLtvPct
    IN  IF ~a.caps THEN 0
        ELSE IF o.depositedCtokenAmount = 0 THEN 0
        ELSE IF o.borrows = 0 THEN ToFixed(depositedNum, depositedDen)
        ELSE IF excessValue <= 0 THEN 0
        ELSE IF rs.price = 0 THEN 0
        ELSE IF rs.openLtvPct = 0 THEN ToFixed(depositedNum, depositedDen)
        ELSE IF maxNum * depositedDen <= depositedNum * maxDen
        THEN ToFixed(maxNum, maxDen)
        ELSE ToFixed(depositedNum, depositedDen)

\* parseObligation: the deposits of the obligation, valued with the reserves
\* handed to the parser
ParsedDeposits(o, rs) ==
    (IF o.depositedCtokenAmount > 0
     THEN << [coinType |-> "LBTC",
              depositedAmount |-> o.depositedCtokenAmount * rs.cTokenExchangeRate,
              depositedAmountUsd |->
                  (o.depositedCtokenAmount * rs.cTokenExchangeRate * rs.price)
                      \div (Pow10(DECIMALS) * WAD),
              closeLtvPct |-> rs.closeLtvPct] >>
     ELSE <<>>) \o o.others

\* step 2 of calculateLiquidationPrice: the other deposits' value weighted by
\* their close LTV, in hundredths of WAD-scaled USD
RECURSIVE OtherCollateralWeighted(_, _)
OtherCollateralWeighted(coinType, deposits) ==
    IF deposits = <<>> THEN 0
    ELSE (IF Head(deposits).coinType = coinType THEN 0
          ELSE Head(deposits).depositedAmountUsd * Head(deposits).closeLtvPct)
         + OtherCollateralWeighted(coinType, Tail(deposits))

\* the numerator of calculateLiquidationPrice
LiquidationNumerator(coinType, weightedBorrowsUsd, deposits) ==
    weightedBorrowsUsd * 100 - OtherCollateralWeighted(coinType, deposits)

\* calculateLiquidationPrice: null, or a BigNumber kept as the fraction num / den
CalculateLiquidationPrice(coinType, amount, closeLtvPct, weightedBorrowsUsd, deposits) ==
    LET numerator == LiquidationNumerator(coinType, weightedBorrowsUsd, deposits)
        denominator == amount * closeLtvPct
    IN  IF numerator <= 0 THEN [kind |-> "value", num |-> 0, den |-> 1]
        ELSE IF denominator = 0 THEN [kind |-> "null", num |-> 0, den |-> 1]
        ELSE [kind |-> "value", num |-> numerator * Pow10(DECIMALS),
              den |-> denominator]

Undefined == [kind |-> "undefined", num |-> 0, den |-> 1]
NoHealthFactor == [infinite |-> FALSE, value |-> 0]
Infinity == [infinite |-> TRUE, value |-> 0]

\* zero weighted borrows give a finite sentinel
CalculatePortfolioMetrics_Sentinel(o) ==
    LET scale == Pow10(DECIMAL_PLACES)
    IN [healthFactor |->
          IF o.weightedBorrowsUsd = 0
          THEN [infinite |-> FALSE, value |-> 0]
          ELSE [infinite |-> FALSE,
                value |-> (2 * o.unhealthyBorrowValueUsd * scale
                              + o.weightedBorrowsUsd)
                          \div (2 * o.weightedBorrowsUsd)]]

\* calculatePortfolioMetrics: the health factor, a BigNumber quotient kept to
\* DECIMAL_PLACES digits (rounded half up) in units of 10^-DECIMAL_PLACES
CalculatePortfolioMetrics(o) ==
    LET scale == Pow10(DECIMAL_PLACES)
    IN [healthFactor |->
          IF o.weightedBorrowsUsd = 0
          THEN Infinity
          ELSE [infinite |-> FALSE,
                value |-> (2 * o.unhealthyBorrowValueUsd * scale
                              + o.weightedBorrowsUsd)
                          \div (2 * o.weightedBorrowsUsd)]]

\* SuilendAdapter.getAccountPortfolio: the health factor and the positions
SuilendGetAccountPortfolio(a, o, rs) ==
    LET deposits == ParsedDeposits(o, rs)
        metrics == CalculatePortfolioMetrics(o)
        supply ==
            [i \in 1..Len(deposits) |->
                LET d == deposits[i]
                    liqPriceBig ==
                        CalculateLiquidationPrice(d.coinType, d.depositedAmount,
                            d.closeLtvPct, o.weightedBorrowsUsd, deposits)
                IN [coinType |-> d.coinType, side |-> "supply",
                    estimatedLiquidationPrice |->
                        IF liqPriceBig.kind # "null" THEN liqPriceBig
                        ELSE Undefined]]
        borrow ==
            IF o.borrows > 0
            THEN << [coinType |-> "USDC", side |-> "borrow",
                     estimatedLiquidationPrice |-> Undefined] >>
            ELSE <<>>
    IN  IF ~a.caps THEN [healthFactor |-> Infinity, positions |-> <<>>]
        ELSE [healthFactor |-> metrics.healthFactor, positions |-> supply \o borrow]

NoResult ==
    [kind |-> "none", amount |-> 0,
     healthFactor |-> NoHealthFactor, positions |-> <<>>]

\* a read of the metrics: err names the error thrown, or "none"
MetricsOp(name, p, err, res) ==
    /\ op' = [name |-> name, protocol |-> p, dryRun |-> FALSE]
    /\ tx' = <<>>
    /\ calls' = IF err = "none" THEN <<"getObligationOwnerCaps">> ELSE <<>>
    /\ ret' = IF err = "none" THEN Resolved(TRUE, "", FALSE, NoKey)
              ELSE Rejected(err)
    /\ built' = NoBuilt
    /\ result' = IF err = "none" THEN res ELSE NoResult
    /\ Forgets /\ UNCHANGED <<facade, lastInit, env, reserves, calc>>

\* what DefiDashSDK.getMaxBorrowable / getMaxWithdrawable throw before the
\* adapter's method runs
FacadeMaxError(p, asset, method) ==
    IF ~initialized THEN "NotInitialized"
    ELSE IF p \notin protocols THEN "NotSupported"
    ELSE IF asset \notin KnownAssets THEN "UnknownAsset"
    ELSE IF method \notin AdapterMethods(p) THEN "TypeError"
    ELSE "none"

\* DefiDashSDK.getMaxBorrowable(protocol, coinType)
GetMaxBorrowable(p, asset) ==
    MetricsOp("getMaxBorrowable", p,
              FacadeMaxError(p, asset, "getMaxBorrowableAmount"),
              [NoResult EXCEPT !.kind = "amount",
                  !.amount = SuilendGetMaxBorrowableAmount(account, obligation,
                                                           reserves)])

\* DefiDashSDK.getMaxWithdrawable(protocol, coinType)
GetMaxWithdrawable(p, asset) ==
    MetricsOp("getMaxWithdrawable", p,
              FacadeMaxError(p, asset, "getMaxWithdrawableAmount"),
              [NoResult EXCEPT !.kind = "amount",
                  !.amount = SuilendGetMaxWithdrawableAmount(account, obligation,
                                                             reserves)])

\* SuilendAdapter.getAccountPortfolio(address) on the session's adapter
GetAccountPortfolio ==
    LET pf == SuilendGetAccountPortfolio(account, obligation, reserves)
    IN MetricsOp("getAccountPortfolio", "suilend",
                 IF "suilend" \in protocols THEN "none" ELSE "NotInitialized",
                 [NoResult EXCEPT !.kind = "portfolio",
                     !.healthFactor = pf.healthFactor,
                     !.positions = pf.positions])

\* the market moves: the price and the exchange rate of the reserve change
MarketMoves(m) ==
    /\ m # market
    /\ m.openLtvPct = market.openLtvPct
    /\ m.closeLtvPct = market.closeLtvPct
    /\ market' = m
    /\ op' = [name |-> "marketMoves", protocol |-> "none", dryRun |-> FALSE]
    /\ tx' = <<>>
    /\ calls' = <<>>
    /\ ret' = NoRet
    /\ built' = NoBuilt
    /\ result' = NoResult
    /\ UNCHANGED <<facade, lastInit, account, router, flashFee, naviData,
                   obligation, reserves, aside>>

\* the plan main() of the leverage script builds (flash loan, swap, obligation,
\* deposit, refresh, borrow, flash-loan repayment)
LeverageScriptPlan(a, rt) ==
    LET initialEquitySui == DepositAmount
        leverageSuiAmount == (initialEquitySui * (MultiplierPct - 100)) \div 100
        quotesForLoan == Quote(leverageSuiAmount, rt.lev)
        quoteForLoan == BestQuote(quotesForLoan)
        flashloanAmount == (quoteForLoan.amountOut * 102) \div 100
        swapQuotes == Quote(flashloanAmount, rt.partial)
        est == [NoBuilt EXCEPT !.reached = TRUE, !.flashLoanUsdc = flashloanAmount]
        tx1 == << Step("borrowFlashLoan", flashloanAmount, {}, {}) >>
        tx2 == Append(tx1, Step("swap", flashloanAmount, {"loanCoin"}, {"loanCoin"}))
        tx3 == IF a.caps THEN tx2
               ELSE Append(tx2, Step("createObligation", 0, {}, {}))
        tx4 == tx3 \o
               << Step("splitCoins", initialEquitySui, {"gas"}, {}),
                  Step("mergeCoins", initialEquitySui + leverageSuiAmount,
                       {"userSui", "swappedSui"}, {"swappedSui"}),
                  Step("deposit", 0, {"userSui"}, {"userSui"}),
                  Step("refreshOracles", 0, {}, {}),
                  Step("borrow", flashloanAmount, {}, {}),
                  Step("repayFlashLoan", flashloanAmount, {"borrowedUsdc", "receipt"},
                       {"borrowedUsdc", "receipt"}) >>
    IN  IF Len(quotesForLoan) = 0
        THEN [raised |-> "NoRoute", tx |-> <<>>, calls |-> <<"quote">>, est |-> NoBuilt]
        ELSE IF Len(swapQuotes) = 0
        THEN [raised |-> "TypeError", tx |-> tx1, calls |-> <<"quote", "quote">>,
              est |-> est]
        ELSE [raised |-> "none", tx |-> tx4,
              calls |-> <<"quote", "quote", "getObligationOwnerCaps", "inspectTxn">>,
              est |-> est]

\* main() of the leverage script: every error is caught and logged, the plan is
\* only simulated
LeverageScript ==
    LET b == LeverageScriptPlan(account, router)
    IN  /\ op' = [name |-> "leverageScript", protocol |-> "suilend", dryRun |-> TRUE]
        /\ tx' = b.tx
        /\ calls' = b.calls
        /\ ret' = Resolved(b.raised = "none",
                         IF b.raised = "none" THEN "" ELSE b.raised, FALSE, NoKey)
        /\ built' = BuiltOf(b)
        /\ Forgets /\ UNCHANGED <<facade, lastInit, env, reserves, result, calc>>

\* ---------------------------------------------------------------- utilities
\* Strings are sequences of one-character strings.
MaxRaw == 1200
MaxDecimals == 3
MaxIntLen == 2
MaxFracLen == 3
MaxPkgLen == 5

Digits == <<"0", "1", "2", "3", "4", "5", "6", "7", "8", "9">>
IsDigit(c) == \E i \in 1..10 : Digits[i] = c
DigitVal(c) == (CHOOSE i \in 1..10 : Digits[i] = c) - 1

\* bigint.toString()
RECURSIVE BigIntToString(_)
BigIntToString(n) ==
    IF n < 10 THEN <<Digits[n + 1]>>
    ELSE Append(BigIntToString(n \div 10), Digits[(n % 10) + 1])

\* String.prototype.padStart / padEnd / slice(0, n)
PadStart(s, n, c) ==
    IF Len(s) >= n THEN s ELSE [i \in 1..(n - Len(s)) |-> c] \o s
PadEnd(s, n, c) ==
    IF Len(s) >= n THEN s ELSE s \o [i \in 1..(n - Len(s)) |-> c]
SliceTo(s, n) == SubSeq(s, 1, IF n < Len(s) THEN n ELSE Len(s))

\* String.prototype.indexOf, counted from 1; 0 when pat does not occur
IndexOf(s, pat) ==
    LET hits == { i \in 1..(Len(s) - Len(pat) + 1) :
                    SubSeq(s, i, i + Len(pat) - 1) = pat }
    IN IF hits = {} THEN 0 ELSE CHOOSE i \in hits : \A j \in hits : i <= j

\* String.prototype.split(sep), sep not empty
RECURSIVE Split(_, _)
Split(s, sep) ==
    LET i == IndexOf(s, sep)
    IN IF i = 0 THEN <<s>>
       ELSE <<SubSeq(s, 1, i - 1)>> \o Split(SubSeq(s, i + Len(sep), Len(s)), sep)

\* String.prototype.replace(pat, ""): the first occurrence only
ReplaceFirst(s, pat) ==
    LET i == IndexOf(s, pat)
    IN IF i = 0 THEN s
       ELSE SubSeq(s, 1, i - 1) \o SubSeq(s, i + Len(pat), Len(s))

\* s.replace(/\.?0+$/, ""): the leftmost suffix made of an optional dot and
\* one or more zeros is removed
StripZeros(s) ==
    LET zeros(t) == Len(t) > 0 /\ \A k \in 1..Len(t) : t[k] = "0"
        matches(t) == zeros(t) \/ (Len(t) > 1 /\ t[1] = "." /\ zeros(Tail(t)))
        hits == { i \in 1..Len(s) : matches(SubSeq(s, i, Len(s))) }
    IN IF hits = {} THEN s
       ELSE SubSeq(s, 1, (CHOOSE i \in hits : \A j \in hits : i <= j) - 1)

\* BigInt(string) on an unsigned string: the empty string is 0n, anything
\* that is not a digit string throws a SyntaxError
RECURSIVE DigitsValue(_)
DigitsValue(s) ==
    IF s = <<>> THEN 0
    ELSE 10 * DigitsValue(SubSeq(s, 1, Len(s) - 1)) + DigitVal(s[Len(s)])

BigInt(s) ==
    IF \A k \in 1..Len(s) : IsDigit(s[k])
    THEN [kind |-> "value", value |-> DigitsValue(s)]
    ELSE [kind |-> "throws", value |-> 0]

\* the dot is dropped only together with an all-zero fraction; this variant
\* strips the zeros of the d = 0 path as well
FormatUnits_StripInteger(amount, decimals) ==
    LET s == BigIntToString(amount)
        pad == PadStart(s, decimals + 1, "0")
        transition == Len(pad) - decimals
        text == IF decimals = 0 THEN s
                ELSE SubSeq(pad, 1, transition) \o <<".">> \o
                     SubSeq(pad, transition + 1, Len(pad))
        stripped == StripZeros(text)
    IN IF stripped = <<>> THEN <<"0">> ELSE stripped

\* formatUnits(amount, decimals), amount a non-negative bigint
FormatUnits(amount, decimals) ==
    LET s == BigIntToString(amount)
        pad == PadStart(s, decimals + 1, "0")
        transition == Len(pad) - decimals
        text == SubSeq(pad, 1, transition) \o <<".">> \o
                SubSeq(pad, transition + 1, Len(pad))
        stripped == StripZeros(text)
    IN IF decimals = 0 THEN s
       ELSE IF stripped = <<>> THEN <<"0">> ELSE stripped

\* the fraction is rounded at the last digit kept instead of cut
ParseUnits_Rounds(amount, decimals) ==
    LET parts == Split(amount, <<".">>)
        integer == parts[1]
        fraction == IF Len(parts) > 1 THEN parts[2] ELSE <<>>
        paddedFraction == SliceTo(PadEnd(fraction, decimals, "0"), decimals)
        cut == BigInt(integer \o paddedFraction)
        up == Len(fraction) > decimals /\ IsDigit(fraction[decimals + 1])
                /\ DigitVal(fraction[decimals + 1]) >= 5
    IN IF cut.kind = "value" /\ up THEN [cut EXCEPT !.value = @ + 1] ELSE cut

\* parseUnits(amount, decimals)
ParseUnits(amount, decimals) ==
    LET parts == Split(amount, <<".">>)
        integer == parts[1]
        fraction == IF Len(parts) > 1 THEN parts[2] ELSE <<>>
        paddedFraction == SliceTo(PadEnd(fraction, decimals, "0"), decimals)
    IN BigInt(integer \o paddedFraction)

\* the width of a package address: 64 hex digits in the source
ADDRESS_LENGTH == 3

\* the prefix is not removed before padding
NormalizeCoinType_KeepPrefix(coinType) ==
    LET parts == Split(coinType, <<":", ":">>)
        pkg == PadStart(parts[1], ADDRESS_LENGTH, "0")
    IN IF Len(parts) # 3 THEN coinType
       ELSE <<"0", "x">> \o pkg \o <<":", ":">> \o parts[2] \o <<":", ":">> \o parts[3]

\* normalizeCoinType(coinType)
NormalizeCoinType(coinType) ==
    LET parts == Split(coinType, <<":", ":">>)
        pkg == PadStart(ReplaceFirst(parts[1], <<"0", "x">>), ADDRESS_LENGTH, "0")
    IN IF Len(parts) # 3 THEN coinType
       ELSE <<"0", "x">> \o pkg \o <<":", ":">> \o parts[2] \o <<":", ":">> \o parts[3]

\* --------------------------------------------------------- earned rewards
MaxRewards == 2
MaxShare == 3

\* mintDecimals of the two reward tokens and the decimals used for DEEP's
\* settled amount (6 and 3 in the source and on chain), scaled
REWARD_DECIMALS == 2
DEEP_EFFECTIVE_DECIMALS == 1
\* amounts are numerators over WAD * 10^REWARD_DECIMALS
RewardDen == WAD * Pow10(REWARD_DECIMALS)

Null == [isNull |-> TRUE]

\* reserve.depositsPoolRewardManager / borrowsPoolRewardManager: the pool's
\* cumulative rewards per share is a numerator over WAD * 10^mintDecimals
PoolRewardManagers ==
    {Null} \cup
    { [isNull |-> FALSE,
       poolRewards |->
         << [id |-> 1, symbol |-> "SUI", mintDecimals |-> REWARD_DECIMALS - 1,
             cumulativeRewardsPerShare |-> c],
            [id |-> 2, symbol |-> "DEEP", mintDecimals |-> REWARD_DECIMALS,
             cumulativeRewardsPerShare |-> c] >>] : c \in {0, 250} }

\* an entry of userRewardManager.rewards: both amounts are WAD-scaled raw values
UserRewards ==
    {Null} \cup
    [isNull : {FALSE}, poolRewardId : 1..3, earnedRewards : {0, 300},
     cumulativeRewardsPerShare : {0, 400}]

UserRewardManagers ==
    {Null} \cup
    { [isNull |-> FALSE, share |-> s, rewards |-> rs] :
        s \in {0, MaxShare},
        rs \in UNION { [1..n -> UserRewards] : n \in 0..MaxRewards } }

\* manager.poolRewards.find((pr) => pr.id === r.poolRewardId)
FindPoolReward(poolRewards, id) ==
    LET hits == { i \in 1..Len(poolRewards) : poolRewards[i].id = id }
    IN IF hits = {} THEN Null
       ELSE [isNull |-> FALSE]
            @@ poolRewards[CHOOSE i \in hits : \A j \in hits : i <= j]

\* the body of the forEach callback for a found pool reward: the numerator of
\* totalHuman over RewardDen
TotalHuman(r, share, poolReward) ==
    LET decimals == poolReward.mintDecimals
        pending == (poolReward.cumulativeRewardsPerShare
                       - r.cumulativeRewardsPerShare)
                   * Pow10(REWARD_DECIMALS - decimals) * share
        pendingHuman == IF pending > 0 THEN pending ELSE 0
        effectiveDecimals == IF poolReward.symbol = "DEEP"
                             THEN DEEP_EFFECTIVE_DECIMALS ELSE decimals
        earnedHuman == r.earnedRewards * Pow10(REWARD_DECIMALS - effectiveDecimals)
    IN earnedHuman + pendingHuman

\* what one entry pushes to earnings
EarnedOf(r, share, poolRewards) ==
    LET poolReward == FindPoolReward(poolRewards, r.poolRewardId)
    IN IF r.isNull THEN <<>>
       ELSE IF poolReward.isNull THEN <<>>
       ELSE IF TotalHuman(r, share, poolReward) > 0
            THEN << [symbol |-> poolReward.symbol,
                     amount |-> TotalHuman(r, share, poolReward)] >>
            ELSE <<>>

RECURSIVE Earnings(_, _, _)
Earnings(rewards, share, poolRewards) ==
    IF rewards = <<>> THEN <<>>
    ELSE EarnedOf(Head(rewards), share, poolRewards)
         \o Earnings(Tail(rewards), share, poolRewards)

\* calculateRewardsEarned(userRewardManager, reserve, isDeposit); manager is
\* the pool reward manager of the side isDeposit selects
CalculateRewardsEarned(userRewardManager, manager) ==
    IF userRewardManager.isNull THEN <<>>
    ELSE IF manager.isNull THEN <<>>
    ELSE Earnings(userRewardManager.rewards, userRewardManager.share,
                  manager.poolRewards)

\* ------------------------------------------------- utilities: the callers
DigitChars == {"0", "4", "5", "9"}
PkgChars == {"0", "x", "a", "A"}

Strings(chars, lo, hi) == UNION { [1..n -> chars] : n \in lo..hi }

DecimalStrings ==
    LET ints == Strings(DigitChars, 1, MaxIntLen)
        fracs == Strings(DigitChars, 0, MaxFracLen)
    IN ints \cup { i \o <<".">> \o f : i \in ints, f \in fracs }

CoinTypeTails ==
    { <<>>, <<":", ":", "m">>, <<":", ":", "m", ":", ":", "n">>,
      <<":", ":", "m", ":", ":", "n", ":", ":", "k">>,
      <<":", ":", ":", "m", ":", ":", "n">> }

CoinTypeStrings ==
    { p \o t : p \in Strings(PkgChars, 0, MaxPkgLen), t \in CoinTypeTails }


\* the applications a caller asks for
UtilityInputs ==
    { [fn |-> "formatUnits", done |-> FALSE, amount |-> a, decimals |-> d] :
        a \in 0..MaxRaw, d \in 0..MaxDecimals }
    \cup
    { [fn |-> "parseUnits", done |-> FALSE, text |-> a, decimals |-> d] :
        a \in DecimalStrings, d \in 0..MaxDecimals }
    \cup
    { [fn |-> "normalizeCoinType", done |-> FALSE, coinType |-> c] :
        c \in CoinTypeStrings }
    \cup
    { [fn |-> "calculateCompoundedBorrow", done |-> FALSE,
       raw |-> r, init |-> i, current |-> c] :
        r \in {0, 1, 150, MaxDebtUnits},
        i \in {0, WAD, WAD + 7},
        c \in {WAD, WAD + 7, WAD + (WAD \div 10), 2 * WAD} }
    \cup
    { [fn |-> "calculateRewardsEarned", done |-> FALSE,
       userRewardManager |-> u, manager |-> m] :
        u \in UserRewardManagers, m \in PoolRewardManagers }

\* a caller applies a utility function; the session is not involved
Utility(fn, out) ==
    /\ calc.fn = fn
    /\ ~calc.done
    /\ calc' = [done |-> TRUE, out |-> out] @@ calc
    /\ UNCHANGED <<facade, lastInit, env, reserves, result, fanout,
                   op, tx, calls, ret, built>>

FormatUnitsCall ==
    Utility("formatUnits", FormatUnits(calc.amount, calc.decimals))

ParseUnitsCall ==
    Utility("parseUnits", ParseUnits(calc.text, calc.decimals))

\* normalizeCoinType applied, and applied again to what it returned
NormalizeCoinTypeCall ==
    Utility("normalizeCoinType",
            <<NormalizeCoinType(calc.coinType),
              NormalizeCoinType(NormalizeCoinType(calc.coinType))>>)

CalculateCompoundedBorrowCall ==
    Utility("calculateCompoundedBorrow",
            CalculateCompoundedBorrow(calc.raw, calc.init, calc.current))

CalculateRewardsEarnedCall ==
    Utility("calculateRewardsEarned",
            CalculateRewardsEarned(calc.userRewardManager, calc.manager))

\* ------------------------------------------------------------ fan-out reads
\* const protocols = [LendingProtocol.Suilend, LendingProtocol.Navi]
ProtocolList == <<"suilend", "navi">>
PositionOf(p) == CHOOSE i \in 1..Len(ProtocolList) : ProtocolList[i] = p

AggregateNames == {"getAggregatedPortfolio", "getAggregatedMarkets"}

\* a slot of the array Promise.all fills, before its promise settles
Unset == [protocol |-> "unset"]

\* NaviAdapter.getAccountPortfolio: one position per non-zero balance; the
\* health factor is the chain's answer to getHealthFactor
NaviGetAccountPortfolio(address, a) ==
    [protocol |-> "navi", address |-> address,
     healthFactor |-> IF a.borrowRaw = 0 THEN Infinity
                      ELSE [infinite |-> FALSE, value |-> 2 * Pow10(DECIMAL_PLACES)],
     positions |->
        (IF a.deposit > 0
         THEN << [side |-> "supply", amountRaw |-> a.deposit] >> ELSE <<>>)
        \o (IF a.borrowRaw > 0
            THEN << [side |-> "borrow", amountRaw |-> a.borrowRaw] >> ELSE <<>>)]

\* adapter.getAccountPortfolio(address) of the adapter registered for p
AdapterPortfolio(p, address) ==
    IF p = "suilend"
    THEN LET pf == SuilendGetAccountPortfolio(account, obligation, reserves)
         IN [protocol |-> "suilend", address |-> address,
             healthFactor |-> pf.healthFactor, positions |-> pf.positions]
    ELSE NaviGetAccountPortfolio(address, account)

\* the "resilient default" of getAggregatedPortfolio
DefaultPortfolio(p, address) ==
    [protocol |-> p, address |-> address, healthFactor |-> Infinity,
     positions |-> <<>>]

\* adapter.getMarkets(): one asset per reserve / pool the adapter holds
AdapterMarkets(p) ==
    IF p = "suilend"
    THEN << [symbol |-> "LBTC", price |-> reserves.price,
             maxLtv |-> reserves.openLtvPct,
             liquidationThreshold |-> reserves.closeLtvPct] >>
    ELSE IF naviData.pools
         THEN << [symbol |-> "LBTC", price |-> market.price,
                  maxLtv |-> 75, liquidationThreshold |-> 80] >>
         ELSE <<>>

\* the callback's value is written where it completes, not where it started
Collect_InCompletionOrder(slots, p, entry) ==
    [slots EXCEPT ![CHOOSE i \in 1..Len(slots) :
                       slots[i] = Unset /\ \A j \in 1..(i - 1) : slots[j] # Unset]
                    = entry]

\* Promise.all(protocols.map(...)): the value of the callback started for p
\* takes p's place in the array
Collect(slots, p, entry) == [slots EXCEPT ![PositionOf(p)] = entry]

\* result[p] = ... on the Record
Put(record, p, value) ==
    [q \in DOMAIN record \cup {p} |-> IF q = p THEN value ELSE record[q]]

\* the entry the callback started for p ends with: the adapter looked up at
\* the start, its answer, the catch block
PortfolioEntry(p, f) ==
    IF p \in f.adapters /\ p \notin f.fails
    THEN AdapterPortfolio(p, f.address) ELSE DefaultPortfolio(p, f.address)

\* getAggregatedPortfolio() / getAggregatedMarkets() up to the await: both
\* callbacks have started and wait for their adapter; fails names the
\* adapters whose fetch is going to throw
AggregateStart(name, fails) ==
    /\ fanout.status # "pending"
    /\ op' = [name |-> name, protocol |-> "none", dryRun |-> FALSE]
    /\ tx' = <<>>
    /\ built' = NoBuilt
    /\ result' = NoResult
    /\ IF ~initialized
       THEN /\ ret' = Rejected("NotInitialized")
            /\ calls' = <<>>
            /\ fanout' = NoFanout
       ELSE /\ ret' = [NoRet EXCEPT !.kind = "pending"]
            /\ calls' = IF name = "getAggregatedPortfolio"
                        THEN [i \in 1..Len(ProtocolList) |->
                                IF ProtocolList[i] \notin protocols THEN "none"
                                ELSE IF ProtocolList[i] = "suilend"
                                THEN "getObligationOwnerCaps" ELSE "getLendingState"]
                        ELSE <<>>
            /\ fanout' = [status |-> "pending", name |-> name,
                          pending |-> {ProtocolList[i] : i \in 1..Len(ProtocolList)},
                          fails |-> fails, order |-> <<>>,
                          adapters |-> protocols, address |-> userAddress,
                          portfolios |-> IF name = "getAggregatedPortfolio"
                                         THEN [i \in 1..Len(ProtocolList) |-> Unset]
                                         ELSE <<>>,
                          markets |-> <<>>]
    /\ UNCHANGED <<facade, lastInit, env, reserves, calc>>

\* the callback started for p runs to its end
FetchCompletes(p) ==
    /\ fanout.status = "pending"
    /\ p \in fanout.pending
    /\ fanout' =
         [fanout EXCEPT
            !.pending = @ \ {p},
            !.order = Append(@, p),
            !.portfolios =
                IF fanout.name = "getAggregatedPortfolio"
                THEN Collect(@, p, PortfolioEntry(p, fanout)) ELSE @,
            !.markets =
                IF fanout.name # "getAggregatedMarkets" THEN @
                ELSE IF p \in fanout.fails THEN Put(@, p, <<>>)
                ELSE IF p \in fanout.adapters THEN Put(@, p, AdapterMarkets(p))
                ELSE @]
    /\ UNCHANGED <<facade, lastInit, env, reserves, result, calc,
                   op, tx, calls, ret, built>>

\* the continuation after await Promise.all(...)
AggregateResolves ==
    /\ fanout.status = "pending"
    /\ fanout.pending = {}
    /\ fanout' = [fanout EXCEPT !.status = "resolved"]
    /\ op' = [name |-> fanout.name, protocol |-> "none", dryRun |-> FALSE]
    /\ ret' = Resolved(TRUE, "", FALSE, NoKey)
    /\ UNCHANGED <<facade, lastInit, env, reserves, result, calc, tx, calls, built>>

\* ------------------------------------------------- the other facade reads
\* DefiDashSDK.hasPosition(protocol)
HasPositionOp(p) ==
    LET err == IF ~initialized THEN "NotInitialized"
               ELSE IF p \notin protocols THEN "NotSupported" ELSE "none"
        has == IF p = "suilend" THEN account.caps
               ELSE GetPosition(p, account).exists
    IN  /\ op' = [name |-> "hasPosition", protocol |-> p, dryRun |-> FALSE]
        /\ tx' = <<>>
        /\ calls' = IF err # "none" THEN <<>>
                    ELSE IF p = "suilend" THEN <<"getObligationOwnerCaps">>
                    ELSE <<"getPosition">>
        /\ ret' = IF err = "none" THEN Resolved(has, "", FALSE, NoKey)
                  ELSE Rejected(err)
        /\ built' = NoBuilt
        /\ Forgets /\ UNCHANGED <<facade, lastInit, env, reserves, result, calc>>

\* an operation that only resolves the asset and hands over to a function
\* outside the session, which makes the calls named
Resolving(name, asset, made) ==
    LET err == IF asset \in KnownAssets THEN "none" ELSE "UnknownAsset"
    IN  /\ op' = [name |-> name, protocol |-> "none", dryRun |-> FALSE]
        /\ tx' = <<>>
        /\ calls' = IF err = "none" THEN made ELSE <<>>
        /\ ret' = IF err = "none" THEN Resolved(TRUE, "", FALSE, NoKey)
                  ELSE Rejected(err)
        /\ built' = NoBuilt
        /\ Forgets /\ UNCHANGED <<facade, lastInit, env, reserves, result, calc>>

\* DefiDashSDK.previewLeverage(params): the preview is computed from the
\* parameters alone
PreviewLeverage(asset) == Resolving("previewLeverage", asset, <<>>)

\* DefiDashSDK.getTokenPrice(asset): the price is fetched from the swap
\* aggregator's price service
GetTokenPrice(asset) == Resolving("getTokenPrice", asset, <<"getTokenPrice">>)

Init ==
    /\ initialized = FALSE
    /\ keypair = NoKey
    /\ userAddress = NoAddress
    /\ protocols = {}
    /\ lastInit = "none"
    /\ account \in Accounts
    /\ router \in Routers
    /\ flashFee \in {0, MaxFee}
    /\ naviData \in NaviDatas
    /\ op = NoOp
    /\ tx = <<>>
    /\ calls = <<>>
    /\ ret = NoRet
    /\ built = NoBuilt
    /\ market = DefaultMarket
    /\ obligation = ObligationOf(account)
    /\ reserves = NoReserves
    /\ result = NoResult
    /\ fanout = NoFanout
    /\ calc = NoCalc

\* ------------------------------------------------------------- initialize
\* DefiDashSDK.initialize: failAt names the adapter whose initialize raises.
Initialize(kOrA, failAt) ==
    /\ IF kOrA \in Addresses
          THEN /\ userAddress' = kOrA
               /\ UNCHANGED keypair
          ELSE /\ keypair' = kOrA
               /\ userAddress' = ToSuiAddress(kOrA)
    /\ protocols' = CASE failAt = "suilend" -> protocols
                      [] failAt = "navi" -> protocols \cup {"suilend"}
                      [] OTHER -> protocols \cup {"suilend", "navi"}
    /\ initialized' = (initialized \/ failAt = "none")
    /\ lastInit' = IF failAt # "none" THEN lastInit
                   ELSE IF kOrA \in Addresses THEN "address" ELSE "keypair"
    /\ op' = [name |-> "initialize", protocol |-> "none", dryRun |-> FALSE]
    /\ tx' = <<>>
    /\ calls' = <<>>
    /\ ret' = IF failAt = "none" THEN Resolved(TRUE, "", FALSE, NoKey)
              ELSE Rejected("AdapterInitFailed")
    /\ built' = NoBuilt
    /\ reserves' = IF failAt = "suilend" THEN reserves ELSE market
    /\ result' = NoResult
    /\ Forgets
    /\ UNCHANGED <<env, calc>>

Next ==
    \/ \E kOrA \in Keys \cup Addresses, failAt \in {"none", "suilend", "navi"} :
          Initialize(kOrA, failAt)
    \/ \E p \in Protocols, asset \in {"LBTC", "DOGE"}, dry \in BOOLEAN,
          chain \in ChainAnswers : Leverage(p, asset, dry, chain)
    \/ \E p \in Protocols, dry \in BOOLEAN, chain \in ChainAnswers :
          Deleverage(p, dry, chain)
    \/ \E p \in Protocols, asset \in {"LBTC", "DOGE"} :
          BuildLeverageTransaction(p, asset)
    \/ \E p \in Protocols : BuildDeleverageTransaction(p)
    \/ \E p \in Protocols : GetPositionOp(p)
    \/ LeverageScript

Spec == Init /\ [][Next]_vars

\* ------------------------------------------------- the metrics on a session
\* the session reads the metrics of one obligation on a market that stands still
InitCalc ==
    /\ initialized = FALSE
    /\ keypair = NoKey
    /\ userAddress = NoAddress
    /\ protocols = {}
    /\ lastInit = "none"
    /\ router = [full |-> <<>>, partial |-> <<>>, lev |-> <<>>]
    /\ flashFee = 0
    /\ naviData = [pools |-> TRUE, feeds |-> TRUE]
    /\ market \in Markets
    /\ \/ obligation = EmptyObligation /\ account = NoAccount
       \/ /\ obligation \in {o \in Obligations : Consistent(o, market)}
          /\ account = AccountOf(obligation)
    /\ reserves = NoReserves
    /\ result = NoResult
    /\ fanout = NoFanout
    /\ calc = NoCalc
    /\ op = NoOp
    /\ tx = <<>>
    /\ calls = <<>>
    /\ ret = NoRet
    /\ built = NoBuilt

NextCalc ==
    \/ \E kOrA \in Keys \cup Addresses, failAt \in {"none", "suilend", "navi"} :
          Initialize(kOrA, failAt)
    \/ \E p \in Protocols, asset \in {"LBTC", "DOGE"} : GetMaxBorrowable(p, asset)
    \/ \E p \in Protocols, asset \in {"LBTC", "DOGE"} : GetMaxWithdrawable(p, asset)
    \/ GetAccountPortfolio

SpecCalc == InitCalc /\ [][NextCalc]_vars

\* the same session while the market moves
MarketObligations ==
    { o \in Obligations :
        /\ o.depositedCtokenAmount = MaxTokens * Pow10(DECIMALS)
        /\ o.allowedBorrowValueUsd > 0
        /\ o.others # <<>> }

InitMarket ==
    /\ initialized = FALSE
    /\ keypair = NoKey
    /\ userAddress = NoAddress
    /\ protocols = {}
    /\ lastInit = "none"
    /\ router = [full |-> <<>>, partial |-> <<>>, lev |-> <<>>]
    /\ flashFee = 0
    /\ naviData = [pools |-> TRUE, feeds |-> TRUE]
    /\ market \in Markets
    /\ obligation \in MarketObligations
    /\ account = AccountOf(obligation)
    /\ reserves = NoReserves
    /\ result = NoResult
    /\ fanout = NoFanout
    /\ calc = NoCalc
    /\ op = NoOp
    /\ tx = <<>>
    /\ calls = <<>>
    /\ ret = NoRet
    /\ built = NoBuilt

NextMarket ==
    \/ \E kOrA \in Keys \cup Addresses, failAt \in {"none", "suilend", "navi"} :
          Initialize(kOrA, failAt)
    \/ \E p \in Protocols, asset \in {"LBTC", "DOGE"} : GetMaxBorrowable(p, asset)
    \/ \E p \in Protocols, asset \in {"LBTC", "DOGE"} : GetMaxWithdrawable(p, asset)
    \/ GetAccountPortfolio
    \/ \E m \in Markets : MarketMoves(m)

SpecMarket == InitMarket /\ [][NextMarket]_vars

\* ------------------------------------------------- the utility functions
InitUtils ==
    /\ initialized = FALSE
    /\ keypair = NoKey
    /\ userAddress = NoAddress
    /\ protocols = {}
    /\ lastInit = "none"
    /\ account = NoAccount
    /\ router = [full |-> <<>>, partial |-> <<>>, lev |-> <<>>]
    /\ flashFee = 0
    /\ naviData = [pools |-> TRUE, feeds |-> TRUE]
    /\ market = DefaultMarket
    /\ obligation = EmptyObligation
    /\ reserves = NoReserves
    /\ result = NoResult
    /\ fanout = NoFanout
    /\ calc \in UtilityInputs
    /\ op = NoOp
    /\ tx = <<>>
    /\ calls = <<>>
    /\ ret = NoRet
    /\ built = NoBuilt

NextUtils ==
    \/ FormatUnitsCall
    \/ ParseUnitsCall
    \/ NormalizeCoinTypeCall
    \/ CalculateCompoundedBorrowCall
    \/ CalculateRewardsEarnedCall

SpecUtils == InitUtils /\ [][NextUtils]_vars

\* ------------------------------------------------- the session as a whole
\* every public operation of the facade, on a market that stands still; the
\* caller starts no other operation while an aggregated read is in flight,
\* except initialize
InitSession ==
    /\ initialized = FALSE
    /\ keypair = NoKey
    /\ userAddress = NoAddress
    /\ protocols = {}
    /\ lastInit = "none"
    /\ account \in Accounts
    /\ router = [full |-> <<100, MaxQuoteOut>>, partial |-> <<MaxQuoteOut \div 100>>,
                 lev |-> <<MaxDeposit>>]
    /\ flashFee = MaxFee
    /\ naviData \in NaviDatas
    /\ market = DefaultMarket
    /\ obligation = ObligationOf(account)
    /\ reserves = NoReserves
    /\ result = NoResult
    /\ fanout = NoFanout
    /\ calc = NoCalc
    /\ op = NoOp
    /\ tx = <<>>
    /\ calls = <<>>
    /\ ret = NoRet
    /\ built = NoBuilt

\* no aggregated read is in flight
Idle == fanout.status # "pending"

NextSession ==
    \/ \E kOrA \in Keys \cup Addresses, failAt \in {"none", "suilend", "navi"} :
          Initialize(kOrA, failAt)
    \/ \E name \in AggregateNames, fails \in SUBSET Protocols :
          AggregateStart(name, fails)
    \/ \E p \in Protocols : FetchCompletes(p)
    \/ AggregateResolves
    \/ \E p \in Protocols, asset \in {"LBTC", "DOGE"}, dry \in BOOLEAN,
          chain \in ChainAnswers : Idle /\ Leverage(p, asset, dry, chain)
    \/ \E p \in Protocols, dry \in BOOLEAN, chain \in ChainAnswers :
          Idle /\ Deleverage(p, dry, chain)
    \/ \E p \in Protocols, asset \in {"LBTC", "DOGE"} :
          Idle /\ BuildLeverageTransaction(p, asset)
    \/ \E p \in Protocols : Idle /\ BuildDeleverageTransaction(p)
    \/ \E p \in Protocols : Idle /\ GetPositionOp(p)
    \/ \E p \in Protocols : Idle /\ HasPositionOp(p)
    \/ \E p \in Protocols, asset \in {"LBTC", "DOGE"} :
          Idle /\ GetMaxBorrowable(p, asset)
    \/ \E p \in Protocols, asset \in {"LBTC", "DOGE"} :
          Idle /\ GetMaxWithdrawable(p, asset)
    \/ \E asset \in {"LBTC", "DOGE"} : Idle /\ PreviewLeverage(asset)
    \/ \E asset \in {"LBTC", "DOGE"} : Idle /\ GetTokenPrice(asset)

SpecSession == InitSession /\ [][NextSession]_vars

\* ------------------------------------------------------------------ claims
StrategyOps == {"leverage", "deleverage"}
DeleverageOps == {"deleverage", "buildDeleverageTransaction"}

Simulated == \E i \in 1..Len(calls) : calls[i] = "dryRunTransactionBlock"
Submitted == \E i \in 1..Len(calls) : calls[i] = "signAndExecuteTransaction"

Kinds(plan) == [i \in 1..Len(plan) |-> plan[i].kind]

\* a step uses a coin that an earlier step of the plan consumed
UseAfterConsume(plan) ==
    \E i \in 1..Len(plan), j \in 1..Len(plan) :
        i < j /\ plan[i].consumes \cap plan[j].uses # {}

DeleverageOrder ==
    << "borrowFlashLoan", "refreshOracles", "repay", "withdraw", "splitCoins",
       "swap", "splitCoins", "repayFlashLoan", "transferObjects" >>

\* C1: whenever the best full-amount quote's output is below the total
\* flash-loan repayment, the deleverage build raises (InsufficientCollateral;
\* the error's name is not compared here, any raise is accepted) and nothing is
\* simulated or submitted.
C1_InsufficientCollateralRaised ==
    (op.name \in DeleverageOps /\ built.quoted
        /\ built.fullSwapOut < built.totalRepayment)
    => (built.status = "raised" /\ ~Simulated /\ ~Submitted)

\* C2: in every deleverage plan built without raising, the swap input valued at
\* the full quote's rate (integer division) covers the total repayment.
C2_SwapCoversRepayment ==
    (op.name \in DeleverageOps /\ built.status = "returned")
    => (built.swapAmount * built.fullSwapOut) \div built.fullSwapIn
          >= built.totalRepayment

\* C3: with an adapter whose repay consumes the coin (Navi), the deleverage
\* build raises before any simulation or submission and emits no plan that
\* uses the flash-loan coin after the consuming repay.
C3_ConsumingAdapterFailsFast ==
    (op.name \in DeleverageOps /\ ConsumesRepaymentCoin(op.protocol))
    => (built.status # "returned" /\ ~Simulated /\ ~Submitted
        /\ ~UseAfterConsume(tx))

\* C4: every completely built deleverage plan holds exactly the steps flash-loan
\* borrow, oracle refresh, repay, withdraw, split, swap, split, flash-loan
\* repay, transfer, in this order.
C4_DeleverageStepOrder ==
    (op.name \in DeleverageOps /\ built.status = "returned")
    => Kinds(tx) = DeleverageOrder

\* C5: in leverage and deleverage a simulation or a submission is made only
\* after the builder returned, as the last call of the operation; when the
\* build raised neither call is made.
C5_SubmitOnlyAfterBuild ==
    op.name \in StrategyOps
    => /\ (Simulated \/ Submitted) => built.status = "returned"
       /\ built.status = "raised" => (~Simulated /\ ~Submitted)
       /\ \A i \in 1..Len(calls) :
             calls[i] \in {"dryRunTransactionBlock", "signAndExecuteTransaction"}
             => i = Len(calls)

C5_Witness ==
    /\ op.name \in StrategyOps
    /\ built.status = "raised"
    /\ built.raised = "NoRoute"
    /\ ret.kind = "resolved"

\* C6: whenever buildDeleverageTransaction raises, the caller's plan has had no
\* step appended.
C6_RaiseLeavesPlanUntouched ==
    (op.name = "buildDeleverageTransaction" /\ built.status = "raised")
    => tx = <<>>

\* C7: the debt the Suilend adapter reports equals the stored raw borrow amount
\* compounded by currentCumulativeRate / originCumulativeRate, in token units.
C7_DebtIsCompounded ==
    (op.name = "getPosition" /\ op.protocol = "suilend"
        /\ built.position.exists /\ account.borrowRaw > 0)
    => LET c == CalculateCompoundedBorrow(account.borrowRaw, account.originRate,
                                          account.currentRate)
       IN built.position.debt = c[1] \div (c[2] * WAD)

\* C8: after an initialize given only an address, leverage and deleverage
\* return success = false with an error, without building, simulating or
\* submitting.
C8_AddressOnlyNeverRuns ==
    (op.name \in StrategyOps /\ lastInit = "address")
    => /\ ret.kind = "resolved" /\ ~ret.success /\ ret.error # ""
       /\ built.status = "notRun"
       /\ calls = <<>>

\* C9: with dryRun = true the plan is only simulated: nothing is signed and
\* submitted and the result carries no transaction digest.
C9_DryRunNeverSubmits ==
    (op.name \in StrategyOps /\ op.dryRun)
    => (~Submitted /\ ret.txDigest = FALSE /\ ret.signer = NoKey)

C9_Witness ==
    /\ op.name \in StrategyOps
    /\ op.dryRun
    /\ built.status = "returned"
    /\ Simulated
    /\ ret.kind = "resolved"

\* C10: on an initialized facade holding a keypair, leverage and deleverage
\* always resolve to a result, failures carrying success = false and a
\* non-empty error; the promise never rejects.
C10_AlwaysResolves ==
    (op.name \in StrategyOps /\ initialized /\ keypair # NoKey)
    => /\ ret.kind = "resolved"
       /\ ~ret.success => ret.error # ""

\* the operation reached the position lookup of the deleverage build
DeleverageLookedUp ==
    /\ op.name \in DeleverageOps
    /\ initialized
    /\ op.protocol \in protocols
    /\ op.name = "deleverage" => keypair # NoKey

\* C11: for a position whose debt amount is zero the deleverage build raises
\* NoDebt right after the position lookup: no flash loan is sized, no quote is
\* asked for, the plan stays empty, nothing is simulated or submitted, and
\* deleverage resolves with success = false and that error.
C11_ZeroDebtFailsFast ==
    (DeleverageLookedUp /\ GetPosition(op.protocol, account).exists
        /\ GetPosition(op.protocol, account).debt = 0)
    => /\ built.status = "raised" /\ built.raised = "NoDebt"
       /\ ~built.reached /\ ~built.quoted /\ built.flashLoanUsdc = 0
       /\ tx = <<>>
       /\ calls = <<"getPosition">>
       /\ op.name = "deleverage"
             => ret = Resolved(FALSE, "NoDebt", FALSE, NoKey)
       /\ op.name = "buildDeleverageTransaction" => ret = Rejected("NoDebt")

C11_Witness ==
    /\ op.name = "deleverage"
    /\ built.position.exists
    /\ built.position.debt = 0
    /\ built.raised = "NoDebt"
    /\ ret.kind = "resolved" /\ ~ret.success

LeverageOps == {"leverage", "buildLeverageTransaction", "leverageScript"}

\* C12: in every leverage plan the amount of the borrow step is at least the
\* flash-loan principal plus the flash-loan fee.
C12_BorrowCoversFlashLoan ==
    op.name \in LeverageOps
    => \A i, j \in 1..Len(tx) :
          (tx[i].kind = "borrowFlashLoan" /\ tx[j].kind = "borrow")
          => tx[j].amount >= tx[i].amount + CalculateFee(tx[i].amount, flashFee)

HasKind(plan, k) == \E i \in 1..Len(plan) : plan[i].kind = k

\* C13: when the facade's leverage build reaches the Suilend deposit for a user
\* without an obligation, the plan creates the obligation before the deposit
\* and the borrow that follows is appended too: the build does not raise for
\* want of an obligation.
C13_FirstTimeDepositThenBorrow ==
    (op.name \in {"leverage", "buildLeverageTransaction"}
        /\ op.protocol = "suilend" /\ ~account.caps /\ HasKind(tx, "deposit"))
    => /\ \E i, j \in 1..Len(tx) :
             i < j /\ tx[i].kind = "createObligation" /\ tx[j].kind = "deposit"
       /\ built.raised # "NoObligation"
       /\ HasKind(tx, "borrow")

\* the last operation was the Suilend adapter's portfolio read and it returned
PortfolioRead == op.name = "getAccountPortfolio" /\ result.kind = "portfolio"

\* the last operation was the named read on the Suilend adapter and it returned
AmountRead(name) ==
    op.name = name /\ op.protocol = "suilend" /\ result.kind = "amount"

\* C14: a deposit whose liquidation-price numerator (weighted borrows minus the
\* other deposits' value times close LTV) is zero or negative has no estimated
\* liquidation price in the portfolio, and no estimated liquidation price in
\* the portfolio is zero or negative.
C14_NoLiquidationPriceWhenCovered ==
    PortfolioRead
    => \A i \in 1..Len(result.positions) :
          LET pos == result.positions[i]
              est == pos.estimatedLiquidationPrice
              numerator ==
                  LiquidationNumerator(pos.coinType, obligation.weightedBorrowsUsd,
                                       ParsedDeposits(obligation, reserves))
          IN pos.side = "supply"
             => /\ numerator <= 0 => est.kind = "undefined"
                /\ est.kind = "value" => est.num > 0

\* C15: the health factor of a portfolio is infinite when the weighted borrows
\* are zero, and otherwise the quotient unhealthy borrow value / weighted
\* borrows (to the last digit the quotient is kept to).
C15_HealthFactor ==
    PortfolioRead
    => LET hf == result.healthFactor
           w == obligation.weightedBorrowsUsd
           l == obligation.unhealthyBorrowValueUsd
           scale == Pow10(DECIMAL_PLACES)
       IN /\ w = 0 => hf.infinite
          /\ w # 0 => /\ ~hf.infinite
                      /\ 2 * (hf.value * w - l * scale) <= w
                      /\ 2 * (l * scale - hf.value * w) <= w

C15_Witness ==
    /\ PortfolioRead
    /\ account.caps
    /\ Len(result.positions) > 0
    /\ obligation.weightedBorrowsUsd = 0
    /\ result.healthFactor.infinite

\* C16: when the obligation holds a deposit of the queried asset and the
\* reserve's open LTV is zero, getMaxWithdrawable returns the whole deposit
\* whatever the debt (checked for reserves with a price above zero only).
C16_ZeroLtvWithdrawsAll ==
    (AmountRead("getMaxWithdrawable") /\ account.caps
        /\ obligation.depositedCtokenAmount > 0 /\ reserves.openLtvPct = 0
        /\ reserves.price > 0)
    => result.amount =
          ToFixed(obligation.depositedCtokenAmount * reserves.cTokenExchangeRate,
                  Pow10(DECIMALS) * WAD)

\* C17: with debt, a priced reserve and an open LTV above zero, the returned
\* amount X exceeds neither the deposit nor SAFETY_PCT / 100 times
\* max(0, allowed - borrowed) / (price * open LTV).
C17_WithdrawableWithinSafeBound ==
    (AmountRead("getMaxWithdrawable") /\ account.caps
        /\ obligation.depositedCtokenAmount > 0 /\ obligation.borrows > 0
        /\ reserves.openLtvPct > 0 /\ reserves.price > 0)
    => LET X == result.amount
           unit == Pow10(TO_FIXED_DIGITS)
           excess == Max(0, obligation.allowedBorrowValueUsd
                               - obligation.borrowedValueUsd)
       IN /\ X * Pow10(DECIMALS) * WAD
                <= obligation.depositedCtokenAmount
                      * reserves.cTokenExchangeRate * unit
          /\ X * reserves.price * reserves.openLtvPct
                <= SAFETY_PCT * excess * unit

C19_EveryAdapterProvidesMaxReads ==
    (op.name \in {"getMaxBorrowable", "getMaxWithdrawable"} /\ initialized
        /\ op.protocol \in protocols /\ ret.error # "UnknownAsset")
    => (ret.kind = "resolved" /\ result.kind = "amount")

\* C20: what a metrics read returns is what its computation gives on the
\* reserve as it is on chain at the time of the read.
C20_MetricsUseFreshReserves ==
    (op.name \in {"getMaxBorrowable", "getMaxWithdrawable", "getAccountPortfolio"}
        /\ result.kind # "none")
    => /\ op.name = "getAccountPortfolio"
             => result.positions =
                   SuilendGetAccountPortfolio(account, obligation, market).positions
       /\ op.name = "getMaxBorrowable"
             => result.amount =
                   SuilendGetMaxBorrowableAmount(account, obligation, market)
       /\ op.name = "getMaxWithdrawable"
             => result.amount =
                   SuilendGetMaxWithdrawableAmount(account, obligation, market)

Applied(fn) == calc.fn = fn /\ calc.done

\* C22: for every non-negative integer raw and every decimals d >= 0,
\* parseUnits(formatUnits(raw, d), d) = raw.
C22_RoundTrip ==
    Applied("formatUnits")
    => ParseUnits(calc.out, calc.decimals) = [kind |-> "value", value |-> calc.amount]

C22_Witness ==
    /\ Applied("formatUnits")
    /\ calc.decimals = 1
    /\ calc.amount > 0
    /\ calc.amount % 100 = 0
    /\ IndexOf(calc.out, <<".">>) = 0

\* the integer part and the fractional part of a decimal string
IntegerPart(text) ==
    LET dot == IndexOf(text, <<".">>)
    IN IF dot = 0 THEN text ELSE SubSeq(text, 1, dot - 1)
FractionPart(text) ==
    LET dot == IndexOf(text, <<".">>)
    IN IF dot = 0 THEN <<>> ELSE SubSeq(text, dot + 1, Len(text))

\* C23: for a decimal string with an integer part and a fractional part of
\* any length, parseUnits(amount, d) is the floor of value * 10^d: digits
\* beyond the d-th are discarded, never rounded up, and a shorter fraction is
\* scaled exactly.
C23_ParseTruncates ==
    Applied("parseUnits")
    => LET i == DigitsValue(IntegerPart(calc.text))
           f == FractionPart(calc.text)
       IN /\ calc.out.kind = "value"
          /\ calc.out.value = i * Pow10(calc.decimals)
                + (DigitsValue(f) * Pow10(calc.decimals)) \div Pow10(Len(f))

C23_Witness ==
    /\ Applied("parseUnits")
    /\ Len(FractionPart(calc.text)) > calc.decimals
    /\ FractionPart(calc.text)[calc.decimals + 1] = "9"
    /\ calc.out.kind = "value"
    /\ calc.out.value > 0

\* hex digits and their lower-case form
HexLower == <<"0", "1", "2", "3", "4", "5", "6", "7", "8", "9",
              "a", "b", "c", "d", "e", "f">>
HexUpper == <<"0", "1", "2", "3", "4", "5", "6", "7", "8", "9",
              "A", "B", "C", "D", "E", "F">>
IsHexDigit(c) == \E i \in 1..16 : HexLower[i] = c \/ HexUpper[i] = c
ToLower(t) ==
    [k \in 1..Len(t) |->
        IF \E i \in 1..16 : HexUpper[i] = t[k]
        THEN HexLower[CHOOSE i \in 1..16 : HexUpper[i] = t[k]] ELSE t[k]]
ToUpper(t) ==
    [k \in 1..Len(t) |->
        IF \E i \in 1..16 : HexLower[i] = t[k]
        THEN HexUpper[CHOOSE i \in 1..16 : HexLower[i] = t[k]] ELSE t[k]]

HasPrefix(pkg) == Len(pkg) >= 2 /\ SubSeq(pkg, 1, 2) = <<"0", "x">>
HexPart(pkg) == IF HasPrefix(pkg) THEN SubSeq(pkg, 3, Len(pkg)) ELSE pkg

\* package::module::name with a package address of at most ADDRESS_LENGTH
\* hex digits, with or without the 0x prefix
WellFormedCoinType(x) ==
    LET parts == Split(x, <<":", ":">>)
    IN /\ Len(parts) = 3
       /\ Len(HexPart(parts[1])) \in 1..ADDRESS_LENGTH
       /\ \A k \in 1..Len(HexPart(parts[1])) : IsHexDigit(HexPart(parts[1])[k])
       /\ \A n \in 2..3 :
             Len(parts[n]) > 0 /\ \A k \in 1..Len(parts[n]) : parts[n][k] # ":"

\* other spellings of the same identifier: the prefix added or removed, a
\* leading zero added, the hex digits in lower or in upper case
Spellings(x) ==
    LET pkg == Split(x, <<":", ":">>)[1]
        rest == SubSeq(x, Len(pkg) + 1, Len(x))
        prefix == IF HasPrefix(pkg) THEN <<"0", "x">> ELSE <<>>
        hex == HexPart(pkg)
    IN { y \in { hex \o rest, <<"0", "x">> \o hex \o rest,
                 prefix \o <<"0">> \o hex \o rest,
                 prefix \o ToLower(hex) \o rest,
                 prefix \o ToUpper(hex) \o rest } : WellFormedCoinType(y) }

\* C24: two identifiers package::module::name whose package addresses denote
\* the same value (leading zeros, 0x prefix, letter case) and whose module and
\* name are identical normalize to identical strings, with a package part of
\* 0x followed by exactly ADDRESS_LENGTH hex digits.
C24_EqualIdentifiersNormalizeEqual ==
    (Applied("normalizeCoinType") /\ WellFormedCoinType(calc.coinType))
    => /\ LET pkg == Split(calc.out[1], <<":", ":">>)[1]
          IN HasPrefix(pkg) /\ Len(HexPart(pkg)) = ADDRESS_LENGTH
       /\ \A y \in Spellings(calc.coinType) : NormalizeCoinType(y) = calc.out[1]

\* C25: normalizeCoinType(normalizeCoinType(x)) = normalizeCoinType(x) for
\* every input string, well-formed or not.
C25_NormalizeIdempotent ==
    Applied("normalizeCoinType") => calc.out[2] = calc.out[1]

C25_Witness ==
    /\ Applied("normalizeCoinType")
    /\ Len(Split(calc.coinType, <<":", ":">>)) = 3
    /\ HasPrefix(calc.coinType)
    /\ calc.out[1] # calc.coinType
    /\ calc.out[2] = calc.out[1]

\* C26: calculateCompoundedBorrow returns raw when origin = 0 and otherwise
\* raw times the quotient current / origin; the product differs from the
\* exact raw * current / origin by at most raw times half a unit of the last
\* digit the quotient keeps.
C26_CompoundedBorrow ==
    Applied("calculateCompoundedBorrow")
    => IF calc.init = 0 THEN calc.out = <<calc.raw, 1>>
       ELSE LET d == calc.out[1] * calc.init - calc.raw * calc.current * calc.out[2]
            IN /\ calc.out[2] = Pow10(DECIMAL_PLACES)
               /\ calc.raw > 0 => calc.out[1] % calc.raw = 0
               /\ 2 * (IF d < 0 THEN -d ELSE d) <= calc.raw * calc.init

C26_Witness ==
    /\ Applied("calculateCompoundedBorrow")
    /\ calc.init # 0
    /\ calc.raw = 150
    /\ calc.current > calc.init
    /\ (calc.current * Pow10(DECIMAL_PLACES)) % calc.init # 0

\* the settled amount and the pending amount of a user reward entry, as
\* numerators over RewardDen; without a pool reward nothing is pending
Settled(r, poolReward) ==
    r.earnedRewards * Pow10(REWARD_DECIMALS -
        (IF poolReward.isNull THEN 0
         ELSE IF poolReward.symbol = "DEEP" THEN DEEP_EFFECTIVE_DECIMALS
         ELSE poolReward.mintDecimals))
Pending(r, share, poolReward) ==
    IF poolReward.isNull THEN 0
    ELSE (poolReward.cumulativeRewardsPerShare - r.cumulativeRewardsPerShare)
         * Pow10(REWARD_DECIMALS - poolReward.mintDecimals) * share

RECURSIVE ExpectedEarned(_, _, _)
ExpectedEarned(rewards, share, poolRewards) ==
    IF rewards = <<>> THEN <<>>
    ELSE LET r == Head(rewards)
             poolReward == FindPoolReward(poolRewards, r.poolRewardId)
             rest == ExpectedEarned(Tail(rewards), share, poolRewards)
         IN IF r.isNull THEN rest
            ELSE IF Settled(r, poolReward) > 0 \/ Pending(r, share, poolReward) > 0
            THEN << Settled(r, poolReward)
                    + Max(0, Pending(r, share, poolReward)) >> \o rest
            ELSE rest

\* C27: every user reward entry whose settled or pending amount is positive is
\* reported with settled + max(0, (current - checkpointed) * share), and no
\* reported amount is negative.
C27_EarnedIsSettledPlusPending ==
    (Applied("calculateRewardsEarned")
        /\ ~calc.userRewardManager.isNull /\ ~calc.manager.isNull)
    => /\ [k \in 1..Len(calc.out) |-> calc.out[k].amount]
            = ExpectedEarned(calc.userRewardManager.rewards,
                             calc.userRewardManager.share,
                             calc.manager.poolRewards)
       /\ \A k \in 1..Len(calc.out) : calc.out[k].amount >= 0

\* C21: getAggregatedPortfolio and getAggregatedMarkets return, for every
\* completion order of the per-protocol fetches, exactly one entry per
\* supported protocol, tied to that protocol: the adapter's answer, or the
\* default when the fetch failed.
C21_AggregationIsOrderIndependent ==
    fanout.status = "resolved"
    => /\ fanout.name = "getAggregatedPortfolio"
            => /\ Len(fanout.portfolios) = Len(ProtocolList)
               /\ \A i \in 1..Len(ProtocolList) :
                    /\ fanout.portfolios[i].protocol = ProtocolList[i]
                    /\ fanout.portfolios[i] =
                         IF ProtocolList[i] \in fanout.fails
                         THEN DefaultPortfolio(ProtocolList[i], fanout.address)
                         ELSE AdapterPortfolio(ProtocolList[i], fanout.address)
       /\ fanout.name = "getAggregatedMarkets"
            => /\ DOMAIN fanout.markets = Protocols
               /\ \A p \in Protocols :
                    fanout.markets[p] =
                         IF p \in fanout.fails THEN <<>> ELSE AdapterMarkets(p)

C21_Witness ==
    /\ fanout.status = "resolved"
    /\ fanout.name = "getAggregatedPortfolio"
    /\ fanout.order = <<"navi", "suilend">>
    /\ fanout.fails = {"navi"}
    /\ fanout.portfolios[1].positions # <<>>

SessionOps ==
    {"getPosition", "hasPosition", "getMaxBorrowable", "getMaxWithdrawable",
     "getAggregatedMarkets", "getAggregatedPortfolio",
     "buildLeverageTransaction", "buildDeleverageTransaction",
     "leverage", "deleverage", "previewLeverage", "getTokenPrice"}

\* C28: on a facade whose initialize never completed, every public operation
\* that reads or builds on session state raises the not-initialized error and
\* makes no call.
C28_NotInitializedRaised ==
    (~initialized /\ op.name \in SessionOps)
    => (ret = Rejected("NotInitialized") /\ calls = <<>>)

\* C29: the signing key the session holds belongs to the session's active
\* address, and whatever leverage or deleverage submits is signed by the
\* active address's key.
C29_KeyBelongsToActiveAddress ==
    /\ keypair # NoKey => ToSuiAddress(keypair) = userAddress
    /\ (op.name \in StrategyOps /\ Submitted)
          => (ret.signer # NoKey /\ ToSuiAddress(ret.signer) = userAddress)

\* C30: an initialize that fails partway leaves the session as it was before
\* the call: same initialized flag, same identity, same adapters.
C30_FailedInitializeLeavesSession ==
    [][(op'.name = "initialize" /\ ret'.kind = "rejected")
          => UNCHANGED <<initialized, keypair, userAddress, protocols>>]_vars
====
